---- MODULE Spec2Model ----
(***************************************************************************)
(* Model of the playback screen of world-trivia-tv (the Play component of  *)
(* src/pages/index.tsx): the React state of the component, the fetch       *)
(* effect, the one-second timer effect with its captured closure, the      *)
(* speak-question effect and the button handlers.  Every action is one     *)
(* event of the browser's event loop: the handler, the re-render and the   *)
(* effects that the re-render schedules.                                   *)
(***************************************************************************)
EXTENDS Integers, Sequences, FiniteSets, TLC

\* ------------------------------------------------------------------ bounds

\* Largest number of items a retrieval response carries.
MaxItems == 3

\* Largest number of Replay presses followed in one screen instance.
MaxReplays == 2

\* ------------------------------------------------------ program constants

\* useState(8), "return 8", setCountdown(8): seconds a question is shown.
QuestionSeconds == 8

\* "return 6": seconds an answer is shown.
AnswerSeconds == 6

\* "count ? parseInt(count) : 10".
DefaultCount == 10

\* ------------------------------------------------------------------ state

VARIABLES
    country,            \* router.query.country ("" when absent)
    period,             \* router.query.period ("" when absent)
    count,              \* router.query.count, a sequence of characters (<<>> when absent)
    fetch,              \* "idle", "inflight" or "done": position of fetchTrivia
    response,           \* what the fetch delivered (meaningful once fetch = "done")
    mounted,            \* "mounted", "unmounted" (navigated away) or "crashed" (render threw)
    triviaItems,        \* useState<TriviaItem[]>([])
    currentIndex,       \* useState(0), 0-based
    showAnswer,         \* useState(false)
    loading,            \* useState(true)
    error,              \* useState('')
    isPaused,           \* useState(false)
    hasEnded,           \* useState(false)
    countdown,          \* useState(8)
    timerIntervalRef,   \* "unset", "running" or "cleared": the setInterval handle
    liveIntervals,      \* number of setInterval timers created and not yet cleared
    captured,           \* what the running interval's closure captured at creation
    narration,          \* the utterance last handed to speechSynthesis ("none" after cancel)
    lastEvent,          \* history: name of the last event
    prev,               \* history: the playback record before the last event
    ticks,              \* history: ticks since mount while no button was pressed
    userActed,          \* history: a button has been pressed
    ends,               \* history: number of times hasEnded went from false to true
    replays,            \* history: number of Replay presses
    frozen,             \* history: the position recorded when Pause was pressed
    triviaData,         \* the bundled collection the API handlers filter
    apiRequest,         \* the request an API handler is called with
    apiResponse,        \* what the handler answered: status, error, items
    shuffleCall         \* the call of shuffleArray the handler made, if any

vars == <<country, period, count, fetch, response, mounted, triviaItems, currentIndex,
          showAnswer, loading, error, isPaused, hasEnded, countdown, timerIntervalRef,
          liveIntervals, captured, narration, lastEvent, prev, ticks, userActed, ends, replays, frozen,
          triviaData, apiRequest, apiResponse, shuffleCall>>

apiVars == <<triviaData, apiRequest, apiResponse, shuffleCall>>

queryVars == <<country, period, count>>

\* The playback record: the component's useState cells.
Cur ==
    [triviaItems  |-> triviaItems,
     currentIndex |-> currentIndex,
     showAnswer   |-> showAnswer,
     loading      |-> loading,
     error        |-> error,
     isPaused     |-> isPaused,
     hasEnded     |-> hasEnded,
     countdown    |-> countdown]

InitialState ==
    [triviaItems  |-> <<>>,
     currentIndex |-> 0,
     showAnswer   |-> FALSE,
     loading      |-> TRUE,
     error        |-> "",
     isPaused     |-> FALSE,
     hasEnded     |-> FALSE,
     countdown    |-> QuestionSeconds]

NoCapture == [currentIndex |-> 0, showAnswer |-> FALSE, triviaItems |-> <<>>]

NoFreeze ==
    [valid |-> FALSE, clean |-> FALSE, countdown |-> 0, currentIndex |-> 0,
     showAnswer |-> FALSE]

\* ------------------------------------------------------------ API values

\* A query parameter of an API request: absent, one string (a sequence of
\* characters), or an array of strings when the parameter is given more than once.
Absent == [kind |-> "absent", str |-> <<>>]

Str(s) == [kind |-> "string", str |-> s]

Multi == [kind |-> "array", str |-> <<>>]

NoRequest == [handler |-> "none", country |-> Absent, period |-> Absent]

\* No answer yet (status 0).
NoApiResponse == [status |-> 0, error |-> "", items |-> <<>>]

NoShuffle == [called |-> FALSE, input |-> <<>>, choices |-> <<>>, array |-> <<>>,
              shuffled |-> <<>>]

\* ------------------------------------------------- count parameter, slice

Countries == {"", "USA"}

Periods == {"", "any", "1960-1979"}

\* Values of the count query parameter, as character sequences.
CountParams ==
    { <<>>, <<"0">>, <<"1">>, <<"2">>, <<"5">>, <<"-", "1">>, <<"a">>, <<"2", "a">> }

\* The result of parseInt: a number, or NaN.
NaN == [isNaN |-> TRUE, value |-> 0]

Number(n) == [isNaN |-> FALSE, value |-> n]

IsDigit(c) == c \in {"0", "1", "2", "3", "4", "5", "6", "7", "8", "9"}

DigitValue(c) ==
    CASE c = "0" -> 0 [] c = "1" -> 1 [] c = "2" -> 2 [] c = "3" -> 3 [] c = "4" -> 4
      [] c = "5" -> 5 [] c = "6" -> 6 [] c = "7" -> 7 [] c = "8" -> 8 [] c = "9" -> 9

RECURSIVE DigitPrefixLen(_)
\* Length of the longest prefix of s made of decimal digits.
DigitPrefixLen(s) ==
    IF s = <<>> \/ ~IsDigit(Head(s)) THEN 0 ELSE 1 + DigitPrefixLen(Tail(s))

RECURSIVE DecimalValue(_, _)
DecimalValue(s, n) ==
    IF n = 0 THEN 0 ELSE 10 * DecimalValue(s, n - 1) + DigitValue(s[n])

\* parseInt(string): optional sign, then the leading digits; NaN without a digit.
ParseInt(s) ==
    LET neg  == s # <<>> /\ Head(s) = "-"
        body == IF s # <<>> /\ Head(s) \in {"-", "+"} THEN Tail(s) ELSE s
        n    == DigitPrefixLen(body)
    IN  IF n = 0 THEN NaN
        ELSE IF neg THEN Number(0 - DecimalValue(body, n))
        ELSE Number(DecimalValue(body, n))

\* const requestedCount = count ? parseInt(count as string) : 10
RequestedCount(c) == IF c # <<>> THEN ParseInt(c) ELSE Number(DefaultCount)

\* Array.prototype.slice(0, end)
Slice0(items, end) ==
    LET len   == Len(items)
        rel   == IF end.isNaN THEN 0 ELSE end.value
        final == IF rel < 0 THEN (IF len + rel > 0 THEN len + rel ELSE 0)
                 ELSE (IF rel < len THEN rel ELSE len)
    IN  SubSeq(items, 1, final)

\* const limitedItems = data.items.slice(0, requestedCount)
LimitedItems(items, c) == Slice0(items, RequestedCount(c))

RECURSIVE ItemList(_)
\* A list of k trivia items, named 1..k in the order the endpoint returned them.
ItemList(k) == IF k = 0 THEN <<>> ELSE Append(ItemList(k - 1), k)

NoResponse == [ok |-> FALSE, items |-> <<>>]

\* Responses a fetch can deliver: a failure (network error or non-2xx status), or a
\* 200 with k items.
Responses ==
    {[ok |-> FALSE, items |-> <<>>]} \cup { [ok |-> TRUE, items |-> ItemList(k)] : k \in 0..MaxItems }

\* ---------------------------------------------------------------- render

\* Which of the four views the component returns.
LoadingView(s) == s.loading
ErrorView(s)   == ~s.loading /\ s.error # ""
EndedView(s)   == ~s.loading /\ s.error = "" /\ s.hasEnded
PlayingView(s) == ~s.loading /\ s.error = "" /\ ~s.hasEnded

\* currentItem = triviaItems[currentIndex] is undefined and currentItem.question throws.
RenderThrows(s) ==
    PlayingView(s) /\ ~(s.currentIndex < Len(s.triviaItems))

\* ---------------------------------------------------------------- effects

\* Dependency list of the speak-question effect.
SpeakDeps(s) ==
    <<s.currentIndex, s.triviaItems, s.loading, s.error, s.isPaused, s.hasEnded, s.showAnswer>>

\* The speak-question effect with the answer-shown test left out.
SpeakCondition_IgnoresShowAnswer(s) ==
    ~s.loading /\ s.error = "" /\ Len(s.triviaItems) > 0 /\ ~s.isPaused /\ ~s.hasEnded

\* Condition of the speak-question effect.
SpeakCondition(s) ==
    ~s.loading /\ s.error = "" /\ Len(s.triviaItems) > 0 /\ ~s.isPaused /\ ~s.hasEnded
    /\ ~s.showAnswer

\* The speak-question effect fires after a render whose dependencies changed.
SpeakEffectFires(old, new) == SpeakDeps(old) # SpeakDeps(new) /\ SpeakCondition(new)

\* The state after the speak-question effect: setCountdown(8) when it fires.
AfterSpeakEffect(old, new) ==
    IF SpeakEffectFires(old, new) THEN [new EXCEPT !.countdown = QuestionSeconds] ELSE new

\* Dependency list of the timer effect.
TimerDeps(s) ==
    <<s.currentIndex, s.showAnswer, s.isPaused, s.loading, s.error, s.hasEnded, s.triviaItems>>

\* The timer effect's guard with the pause test left out.
TimerBlocked_IgnoresPause(s) ==
    s.loading \/ s.error # "" \/ Len(s.triviaItems) = 0 \/ s.hasEnded

\* Guard of the timer effect: no interval is created when this holds.
TimerBlocked(s) ==
    s.loading \/ s.error # "" \/ Len(s.triviaItems) = 0 \/ s.isPaused \/ s.hasEnded

\* The interval handle after the timer effect's cleanup and re-run.
TimerAfterEffect(old, new, ref) ==
    IF TimerDeps(old) = TimerDeps(new) THEN ref
    ELSE IF TimerBlocked(new) THEN (IF ref = "unset" THEN "unset" ELSE "cleared")
    ELSE "running"

\* The number of live intervals after a teardown clears the one the handle names.
LiveAfterClear(ref, live) == IF ref = "running" THEN live - 1 ELSE live

\* The timer effect without the cleanup function it returns.
LiveAfterEffect_NoCleanup(old, new, ref, live) ==
    IF TimerDeps(old) = TimerDeps(new) THEN live
    ELSE IF TimerBlocked(new) THEN LiveAfterClear(ref, live)
    ELSE live + 1

\* The number of live intervals after the timer effect: the cleanup returned by the
\* previous run (there is one when that run created an interval) clears the interval
\* the handle names, then the guard clears it again or setInterval creates a new one.
LiveAfterEffect(old, new, ref, live) ==
    IF TimerDeps(old) = TimerDeps(new) THEN live
    ELSE LET cleanupRuns == ~TimerBlocked(old)
             refThen     == IF cleanupRuns /\ ref = "running" THEN "cleared" ELSE ref
             liveThen    == IF cleanupRuns THEN LiveAfterClear(ref, live) ELSE live
         IN  IF TimerBlocked(new) THEN LiveAfterClear(refThen, liveThen)
             ELSE liveThen + 1

\* What the interval callback created by the timer effect closes over.
CaptureAfterEffect(old, new, cap) ==
    IF TimerDeps(old) = TimerDeps(new) THEN cap
    ELSE IF TimerBlocked(new) THEN NoCapture
    ELSE [currentIndex |-> new.currentIndex, showAnswer |-> new.showAnswer,
          triviaItems |-> new.triviaItems]

\* One commit: the handler left the record h and the utterance say; the component
\* re-renders and its effects run.
Commit(h, say) ==
    LET s == IF RenderThrows(h) THEN h ELSE AfterSpeakEffect(Cur, h)
    IN  /\ triviaItems' = s.triviaItems
        /\ currentIndex' = s.currentIndex
        /\ showAnswer' = s.showAnswer
        /\ loading' = s.loading
        /\ error' = s.error
        /\ isPaused' = s.isPaused
        /\ hasEnded' = s.hasEnded
        /\ prev' = Cur
        /\ IF RenderThrows(h)
           THEN /\ mounted' = "crashed"
                /\ countdown' = s.countdown
                /\ narration' = say
                /\ timerIntervalRef' =
                      IF timerIntervalRef = "running" THEN "cleared" ELSE timerIntervalRef
                /\ liveIntervals' = LiveAfterClear(timerIntervalRef, liveIntervals)
                /\ captured' = NoCapture
           ELSE /\ mounted' = mounted
                /\ countdown' = s.countdown
                /\ narration' = IF SpeakEffectFires(Cur, h) THEN "question" ELSE say
                /\ timerIntervalRef' = TimerAfterEffect(Cur, h, timerIntervalRef)
                /\ liveIntervals' = LiveAfterEffect(Cur, h, timerIntervalRef, liveIntervals)
                /\ captured' = CaptureAfterEffect(Cur, h, captured)

\* ------------------------------------------------------------------- init

Init ==
    /\ country \in Countries
    /\ period \in Periods
    /\ count \in CountParams
    /\ fetch = "idle"
    /\ response = NoResponse
    /\ mounted = "mounted"
    /\ triviaItems = InitialState.triviaItems
    /\ currentIndex = InitialState.currentIndex
    /\ showAnswer = InitialState.showAnswer
    /\ loading = InitialState.loading
    /\ error = InitialState.error
    /\ isPaused = InitialState.isPaused
    /\ hasEnded = InitialState.hasEnded
    /\ countdown = InitialState.countdown
    /\ timerIntervalRef = "unset"
    /\ liveIntervals = 0
    /\ captured = NoCapture
    /\ narration = "none"
    /\ lastEvent = "mount"
    /\ prev = InitialState
    /\ ticks = 0
    /\ userActed = FALSE
    /\ ends = 0
    /\ replays = 0
    /\ frozen = NoFreeze
    /\ triviaData = <<>>
    /\ apiRequest = NoRequest
    /\ apiResponse = NoApiResponse
    /\ shuffleCall = NoShuffle

\* ------------------------------------------------------------ fetch effect

\* The fetch effect returns early unless both country and period are present.
FetchEffectRuns == country # "" /\ period # ""

\* fetchTrivia up to the await: setLoading(true) and the request is sent.
FetchEffect ==
    /\ mounted = "mounted"
    /\ fetch = "idle"
    /\ FetchEffectRuns
    /\ fetch' = "inflight"
    /\ Commit([Cur EXCEPT !.loading = TRUE], narration)
    /\ lastEvent' = "fetchStart"
    /\ UNCHANGED <<apiVars, queryVars, response, ticks, userActed, ends, replays, frozen>>

\* fetchTrivia with the empty-list test left out.
FetchOutcome_EmptyNotError(s, r, c) ==
    IF ~r.ok
    THEN [s EXCEPT !.error = "Failed to load trivia", !.loading = FALSE]
    ELSE [s EXCEPT !.triviaItems = LimitedItems(r.items, c), !.loading = FALSE]

\* The record fetchTrivia leaves when the response r arrives (try / catch / finally).
FetchOutcome(s, r, c) ==
    IF ~r.ok
    THEN [s EXCEPT !.error = "Failed to load trivia", !.loading = FALSE]
    ELSE IF Len(r.items) = 0
    THEN [s EXCEPT !.error = "No trivia found", !.loading = FALSE]
    ELSE [s EXCEPT !.triviaItems = LimitedItems(r.items, c), !.loading = FALSE]

\* What fetchTrivia speaks when the response r arrives.
FetchSpeech(r) ==
    IF ~r.ok THEN "failed" ELSE IF Len(r.items) = 0 THEN "notFound" ELSE "starting"

\* fetchTrivia after the await: the response arrives.
FetchComplete ==
    /\ mounted = "mounted"
    /\ fetch = "inflight"
    /\ \E r \in Responses :
          /\ response' = r
          /\ Commit(FetchOutcome(Cur, r, count), FetchSpeech(r))
    /\ fetch' = "done"
    /\ lastEvent' = "fetchDone"
    /\ UNCHANGED <<apiVars, queryVars, ticks, userActed, ends, replays, frozen>>

\* ------------------------------------------------------------------- tick

\* The updater with the expiry test "prev <= 0".
TickResult_ExpiresAtZero(s, c) ==
    IF s.countdown <= 0
    THEN IF ~c.showAnswer
         THEN [s EXCEPT !.showAnswer = TRUE, !.countdown = AnswerSeconds]
         ELSE IF c.currentIndex < Len(c.triviaItems) - 1
         THEN [s EXCEPT !.currentIndex = c.currentIndex + 1, !.showAnswer = FALSE,
                        !.countdown = QuestionSeconds]
         ELSE [s EXCEPT !.hasEnded = TRUE, !.countdown = 0]
    ELSE [s EXCEPT !.countdown = s.countdown - 1]

\* The updater with the expiry test "prev < 0".
TickResult_ExpiresBelowZero(s, c) ==
    IF s.countdown < 0
    THEN IF ~c.showAnswer
         THEN [s EXCEPT !.showAnswer = TRUE, !.countdown = AnswerSeconds]
         ELSE IF c.currentIndex < Len(c.triviaItems) - 1
         THEN [s EXCEPT !.currentIndex = c.currentIndex + 1, !.showAnswer = FALSE,
                        !.countdown = QuestionSeconds]
         ELSE [s EXCEPT !.hasEnded = TRUE, !.countdown = 0]
    ELSE [s EXCEPT !.countdown = s.countdown - 1]

\* The updater passed to setCountdown by the interval callback; c is the closure.
TickResult(s, c) ==
    IF s.countdown <= 1
    THEN IF ~c.showAnswer
         THEN [s EXCEPT !.showAnswer = TRUE, !.countdown = AnswerSeconds]
         ELSE IF c.currentIndex < Len(c.triviaItems) - 1
         THEN [s EXCEPT !.currentIndex = c.currentIndex + 1, !.showAnswer = FALSE,
                        !.countdown = QuestionSeconds]
         ELSE [s EXCEPT !.hasEnded = TRUE, !.countdown = 0]
    ELSE [s EXCEPT !.countdown = s.countdown - 1]

\* What the interval callback speaks (say when it speaks nothing).
TickSpeech(s, c, say) ==
    IF s.countdown <= 1
    THEN IF ~c.showAnswer THEN "answer"
         ELSE IF c.currentIndex < Len(c.triviaItems) - 1 THEN say
         ELSE "finished"
    ELSE say

\* Number of times hasEnded went from false to true, after a step from s to h.
EndsAfter(s, h) == IF ~s.hasEnded /\ h.hasEnded THEN ends + 1 ELSE ends

\* One firing of the setInterval callback.
Tick ==
    /\ mounted = "mounted"
    /\ liveIntervals > 0
    /\ LET h == TickResult(Cur, captured)
       IN  /\ Commit(h, TickSpeech(Cur, captured, narration))
           /\ ends' = EndsAfter(Cur, h)
    /\ lastEvent' = "tick"
    /\ ticks' = IF userActed THEN 0 ELSE ticks + 1
    /\ frozen' = NoFreeze
    /\ UNCHANGED <<apiVars, queryVars, fetch, response, userActed, replays>>

\* --------------------------------------------------------------- handlers

\* The Pause / Repeat / Next buttons are rendered by the playing view only.
PlayingButtons == mounted = "mounted" /\ PlayingView(Cur)

\* handlePausePlay: setIsPaused(!isPaused).
PausePlayResult(s) == [s EXCEPT !.isPaused = ~s.isPaused]

\* handlePausePlay speaks 'Resuming trivia', or speaks 'Paused' and cancels it.
PausePlaySpeech(s) == IF s.isPaused THEN "resuming" ELSE "none"

HandlePausePlay ==
    /\ PlayingButtons
    /\ Commit(PausePlayResult(Cur), PausePlaySpeech(Cur))
    /\ lastEvent' = IF isPaused THEN "resume" ELSE "pause"
    /\ frozen' = IF isPaused THEN frozen
                 ELSE [valid |-> TRUE, clean |-> TRUE, countdown |-> countdown,
                       currentIndex |-> currentIndex, showAnswer |-> showAnswer]
    /\ userActed' = TRUE
    /\ ticks' = 0
    /\ UNCHANGED <<apiVars, queryVars, fetch, response, ends, replays>>

\* handleRepeat without the showAnswer branch.
RepeatSpeech_AlwaysQuestion(s, say) ==
    IF Len(s.triviaItems) = 0 THEN say ELSE "repeatQuestion"

\* handleRepeat speaks the question, or the question and the answer.
RepeatSpeech(s, say) ==
    IF Len(s.triviaItems) = 0 THEN say
    ELSE IF s.showAnswer THEN "repeatAnswer" ELSE "repeatQuestion"

HandleRepeat ==
    /\ PlayingButtons
    /\ Commit(Cur, RepeatSpeech(Cur, narration))
    /\ lastEvent' = "repeat"
    /\ frozen' = IF isPaused THEN frozen ELSE NoFreeze
    /\ userActed' = TRUE
    /\ ticks' = 0
    /\ UNCHANGED <<apiVars, queryVars, fetch, response, ends, replays>>

\* handleNextQuestion with the last-item test off by one.
NextQuestionResult_EndsEarly(s) ==
    IF s.currentIndex < Len(s.triviaItems) - 2
    THEN [s EXCEPT !.currentIndex = s.currentIndex + 1, !.showAnswer = FALSE,
                   !.countdown = QuestionSeconds]
    ELSE [s EXCEPT !.hasEnded = TRUE]

\* handleNextQuestion without setCountdown(8).
NextQuestionResult_KeepsCountdown(s) ==
    IF s.currentIndex < Len(s.triviaItems) - 1
    THEN [s EXCEPT !.currentIndex = s.currentIndex + 1, !.showAnswer = FALSE]
    ELSE [s EXCEPT !.hasEnded = TRUE]

\* handleNextQuestion: advance, or end on the last item.
NextQuestionResult(s) ==
    IF s.currentIndex < Len(s.triviaItems) - 1
    THEN [s EXCEPT !.currentIndex = s.currentIndex + 1, !.showAnswer = FALSE,
                   !.countdown = QuestionSeconds]
    ELSE [s EXCEPT !.hasEnded = TRUE]

NextQuestionSpeech(s) ==
    IF s.currentIndex < Len(s.triviaItems) - 1 THEN "movingToNext" ELSE "lastQuestion"

HandleNextQuestion ==
    /\ PlayingButtons
    /\ LET h == NextQuestionResult(Cur)
       IN  /\ Commit(h, NextQuestionSpeech(Cur))
           /\ ends' = EndsAfter(Cur, h)
    /\ lastEvent' = "next"
    /\ frozen' = IF isPaused THEN [frozen EXCEPT !.clean = FALSE] ELSE NoFreeze
    /\ userActed' = TRUE
    /\ ticks' = 0
    /\ UNCHANGED <<apiVars, queryVars, fetch, response, replays>>

\* handleReplay without setIsPaused(false).
ReplayResult_KeepsPause(s) ==
    [s EXCEPT !.currentIndex = 0, !.showAnswer = FALSE, !.hasEnded = FALSE,
              !.countdown = QuestionSeconds]

\* handleReplay: back to the first question.
ReplayResult(s) ==
    [s EXCEPT !.currentIndex = 0, !.showAnswer = FALSE, !.hasEnded = FALSE,
              !.isPaused = FALSE, !.countdown = QuestionSeconds]

\* The Replay button is rendered by the ended view only.
HandleReplay ==
    /\ mounted = "mounted"
    /\ EndedView(Cur)
    /\ replays < MaxReplays
    /\ Commit(ReplayResult(Cur), "restarting")
    /\ lastEvent' = "replay"
    /\ replays' = replays + 1
    /\ frozen' = NoFreeze
    /\ userActed' = TRUE
    /\ ticks' = 0
    /\ UNCHANGED <<apiVars, queryVars, fetch, response, ends>>

\* handleBackToMenu: cancel speech and leave the screen; the timer effect's cleanup
\* clears the interval.  The button is rendered by every view but the loading view.
HandleBackToMenu ==
    /\ mounted = "mounted"
    /\ ~LoadingView(Cur)
    /\ mounted' = "unmounted"
    /\ narration' = "none"
    /\ timerIntervalRef' = IF timerIntervalRef = "running" THEN "cleared" ELSE timerIntervalRef
    /\ liveIntervals' = LiveAfterClear(timerIntervalRef, liveIntervals)
    /\ captured' = NoCapture
    /\ lastEvent' = "backToMenu"
    /\ prev' = Cur
    /\ userActed' = TRUE
    /\ ticks' = 0
    /\ UNCHANGED <<apiVars, queryVars, fetch, response, triviaItems, currentIndex, showAnswer,
                   loading, error, isPaused, hasEnded, countdown, ends, replays, frozen>>

\* The screen is left while the loading view is shown (a route change by the browser:
\* the loading view renders no button).  React runs the effect cleanups: the timer
\* effect returns one, the fetch effect returns none, so a request in flight stays in
\* flight.  handleBackToMenu is not called and no speech is cancelled.
Unmount ==
    /\ mounted = "mounted"
    /\ LoadingView(Cur)
    /\ mounted' = "unmounted"
    /\ timerIntervalRef' = IF timerIntervalRef = "running" THEN "cleared" ELSE timerIntervalRef
    /\ liveIntervals' = LiveAfterClear(timerIntervalRef, liveIntervals)
    /\ captured' = NoCapture
    /\ lastEvent' = "unmount"
    /\ prev' = Cur
    /\ userActed' = TRUE
    /\ ticks' = 0
    /\ UNCHANGED <<apiVars, queryVars, fetch, response, triviaItems, currentIndex, showAnswer,
                   loading, error, isPaused, hasEnded, countdown, narration, ends, replays,
                   frozen>>

\* fetchTrivia after the await, on a screen that was left meanwhile: the setters are
\* called on an unmounted component, whose state React no longer updates, and speak
\* is called as on a mounted one.
FetchCompleteUnmounted ==
    /\ mounted = "unmounted"
    /\ fetch = "inflight"
    /\ \E r \in Responses :
          /\ response' = r
          /\ narration' = FetchSpeech(r)
    /\ fetch' = "done"
    /\ lastEvent' = "fetchDoneUnmounted"
    /\ prev' = Cur
    /\ UNCHANGED <<apiVars, queryVars, mounted, triviaItems, currentIndex, showAnswer, loading,
                   error, isPaused, hasEnded, countdown, timerIntervalRef, liveIntervals,
                   captured, ticks, userActed, ends, replays, frozen>>

\* ---------------------------------------------------------- specification

Next ==
    \/ FetchEffect
    \/ FetchComplete
    \/ Tick
    \/ HandlePausePlay
    \/ HandleRepeat
    \/ HandleNextQuestion
    \/ HandleReplay
    \/ HandleBackToMenu
    \/ Unmount
    \/ FetchCompleteUnmounted

Spec == Init /\ [][Next]_vars

\* The effect that starts the fetch runs after the commit that made it pending, and
\* every issued fetch eventually completes or fails.
FairSpec == Spec /\ WF_vars(FetchEffect) /\ WF_vars(FetchComplete)

\* In addition, a live interval keeps firing its callback every second.
PlaybackSpec == FairSpec /\ WF_vars(Tick)

\* ------------------------------------------------------------ API: data

\* Largest number of items in the bundled collection.
MaxData == 4

\* Strings of the API, as sequences of characters.
USA == <<"U", "S", "A">>
Nigeria == <<"N", "i", "g", "e", "r", "i", "a">>
P1960 == <<"1", "9", "6", "0", "-", "1", "9", "7", "9">>
P1980 == <<"1", "9", "8", "0", "-", "1", "9", "9", "9">>
AnyLower == <<"a", "n", "y">>
AnyTimeLower == <<"a", "n", "y", " ", "t", "i", "m", "e">>
AnyTimeLabel == <<"A", "n", "y", " ", "T", "i", "m", "e">>

\* Item i of the collection: its country and period.
DataItem(i) ==
    [id      |-> i,
     country |-> IF i % 3 = 0 THEN Nigeria ELSE USA,
     period  |-> IF i % 2 = 0 THEN P1980 ELSE P1960]

RECURSIVE DataList(_)
DataList(k) == IF k = 0 THEN <<>> ELSE Append(DataList(k - 1), DataItem(k))

\* The collections the handlers are run on.
DataSets == { DataList(k) : k \in 0..MaxData }

\* Values of the country parameter of the single-country handler.
CountryParams ==
    { Absent, Str(<<>>), Str(USA), Str(<<"u", "s", "a">>), Str(<<"U", "s", "a">>),
      Str(<<"n", "i", "g", "e", "r", "i", "a">>), Str(<<"U", "S">>), Multi }

\* Values of the countries parameter of the comma-separated variant.
CountriesParams ==
    { Absent, Str(<<>>), Str(USA), Str(<<"u", "s", "a", ",", "N", "I", "G", "E", "R", "I", "A">>),
      Str(<<"N", "i", "g", "e", "r", "i", "a", ",", " ", "U", "S", "A">>),
      Str(<<"U", "K", ",", "U", "S">>), Multi }

\* Values of the period parameter.
PeriodParams ==
    { Absent, Str(<<>>), Str(AnyLower), Str(AnyTimeLabel), Str(AnyTimeLower),
      Str(<<"A", "N", "Y", " ", "T", "I", "M", "E">>), Str(<<"A", "n", "y">>),
      Str(P1960), Str(P1980), Str(<<"1", "9", "6", "0">>), Multi }

\* --------------------------------------------------------- API: strings

UpperCaseLetters ==
    <<"A", "B", "C", "D", "E", "F", "G", "H", "I", "J", "K", "L", "M",
      "N", "O", "P", "Q", "R", "S", "T", "U", "V", "W", "X", "Y", "Z">>

LowerCaseLetters ==
    <<"a", "b", "c", "d", "e", "f", "g", "h", "i", "j", "k", "l", "m",
      "n", "o", "p", "q", "r", "s", "t", "u", "v", "w", "x", "y", "z">>

\* String.prototype.toLowerCase on one character.
LowerChar(c) ==
    IF \E i \in DOMAIN UpperCaseLetters : UpperCaseLetters[i] = c
    THEN LowerCaseLetters[CHOOSE i \in DOMAIN UpperCaseLetters : UpperCaseLetters[i] = c]
    ELSE c

\* String.prototype.toLowerCase.
ToLowerCase(s) == [i \in 1..Len(s) |-> LowerChar(s[i])]

RECURSIVE Split(_, _)
\* String.prototype.split(sep) for a one-character separator.
Split(s, sep) ==
    IF \A i \in 1..Len(s) : s[i] # sep THEN <<s>>
    ELSE LET k == CHOOSE i \in 1..Len(s) : s[i] = sep /\ \A j \in 1..(i - 1) : s[j] # sep
         IN  <<SubSeq(s, 1, k - 1)>> \o Split(SubSeq(s, k + 1, Len(s)), sep)

\* JavaScript truthiness of a query parameter: arrays and non-empty strings.
Truthy(q) == q.kind = "array" \/ (q.kind = "string" /\ q.str # <<>>)

\* ---------------------------------------------------------- API: shuffle

\* The swap with the second assignment lost.
Swap0_Overwrite(a, i, j) == [a EXCEPT ![i + 1] = a[j + 1]]

\* [shuffled[i], shuffled[j]] = [shuffled[j], shuffled[i]] with 0-based i, j.
Swap0(a, i, j) == [a EXCEPT ![i + 1] = a[j + 1], ![j + 1] = a[i + 1]]

\* The range of j with "Math.random() * i".
ChoiceRange_ExcludesSelf(i) == 0..(i - 1)

\* The values of j = Math.floor(Math.random() * (i + 1)).
ChoiceRange(i) == 0..i

\* The outcomes of the random choices of one call on an array of length n: the value
\* of j for every i from n-1 down to 1.
ChoiceSeqs(n) ==
    { js \in [1..(n - 1) -> 0..(n - 1)] : \A i \in 1..(n - 1) : js[i] \in ChoiceRange(i) }

RECURSIVE ShuffleLoop(_, _, _)
\* The for loop of shuffleArray from index i down to 1.
ShuffleLoop(a, i, js) ==
    IF i > 0 THEN ShuffleLoop(Swap0(a, i, js[i]), i - 1, js) ELSE a

\* shuffleArray(array) under the choices js: the array after the call and the result.
ShuffleArray(array, js) ==
    LET copy == array
    IN  [called |-> TRUE, input |-> array, choices |-> js, array |-> array,
         shuffled |-> ShuffleLoop(copy, Len(copy) - 1, js)]

\* --------------------------------------------------------- API: handlers

\* The country test without toLowerCase.
CountryMatches_CaseSensitive(item, c) == item.country = c

\* item.country.toLowerCase() === c.toLowerCase()
CountryMatches(item, c) == ToLowerCase(item.country) = ToLowerCase(c)

\* The period test without the comparison with 'any'.
PeriodFilterApplies_ForgetsAny(q) ==
    Truthy(q) /\ ToLowerCase(q.str) # AnyTimeLower

\* period && period !== 'any' && period.toLowerCase() !== 'any time'
PeriodFilterApplies(q) ==
    Truthy(q) /\ q.str # AnyLower /\ ToLowerCase(q.str) # AnyTimeLower

\* The items the single-country handler keeps.
TriviaFiltered(data, req) ==
    LET ByCountry(item) == CountryMatches(item, req.country.str)
        ByPeriod(item)  == item.period = req.period.str
        filtered        == SelectSeq(data, ByCountry)
    IN  IF PeriodFilterApplies(req.period) THEN SelectSeq(filtered, ByPeriod) ELSE filtered

\* The items the comma-separated variant keeps.
CountriesFiltered(data, req) ==
    LET countryList     == Split(req.country.str, ",")
        ByCountry(item) == \E k \in 1..Len(countryList) : CountryMatches(item, countryList[k])
        ByPeriod(item)  == item.period = req.period.str
        filtered        == SelectSeq(data, ByCountry)
    IN  IF PeriodFilterApplies(req.period) THEN SelectSeq(filtered, ByPeriod) ELSE filtered

\* A method call on an array-valued parameter throws a TypeError, which the handler's
\* catch turns into a 500: toLowerCase on country inside the filter callback (called
\* once per item), split on countries, toLowerCase on period.
TriviaThrows(data, req) ==
    (req.country.kind = "array" /\ data # <<>>) \/ req.period.kind = "array"

CountriesThrows(data, req) ==
    req.country.kind = "array" \/ req.period.kind = "array"

\* The test with "country === undefined".
MissingParam_OnlyUndefined(q) == q.kind = "absent"

\* if (!country)
MissingParam(q) == ~Truthy(q)

BadRequest(message) == [status |-> 400, error |-> message, items |-> <<>>]

ServerError ==
    [status |-> 500, error |-> "Internal server error while fetching trivia", items |-> <<>>]

Ok(items) == [status |-> 200, error |-> "", items |-> items]

\* The single-country handler is called with the pending request.
TriviaHandler ==
    /\ apiRequest.handler = "trivia"
    /\ apiResponse = NoApiResponse
    /\ IF MissingParam(apiRequest.country)
       THEN /\ apiResponse' = BadRequest("Country parameter is required")
            /\ shuffleCall' = NoShuffle
       ELSE IF TriviaThrows(triviaData, apiRequest)
       THEN /\ apiResponse' = ServerError
            /\ shuffleCall' = NoShuffle
       ELSE LET filtered == TriviaFiltered(triviaData, apiRequest)
            IN  \E js \in ChoiceSeqs(Len(filtered)) :
                   /\ shuffleCall' = ShuffleArray(filtered, js)
                   /\ apiResponse' = Ok(shuffleCall'.shuffled)
    /\ UNCHANGED <<triviaData, apiRequest>>
    /\ UNCHANGED <<queryVars, fetch, response, mounted, triviaItems, currentIndex, showAnswer,
                   loading, error, isPaused, hasEnded, countdown, timerIntervalRef,
                   liveIntervals, captured, narration, lastEvent, prev, ticks, userActed,
                   ends, replays, frozen>>

\* The comma-separated variant is called with the pending request.
CountriesHandler ==
    /\ apiRequest.handler = "countries"
    /\ apiResponse = NoApiResponse
    /\ IF MissingParam(apiRequest.country)
       THEN /\ apiResponse' = BadRequest("Countries parameter is required")
            /\ shuffleCall' = NoShuffle
       ELSE IF CountriesThrows(triviaData, apiRequest)
       THEN /\ apiResponse' = ServerError
            /\ shuffleCall' = NoShuffle
       ELSE LET filtered == CountriesFiltered(triviaData, apiRequest)
            IN  \E js \in ChoiceSeqs(Len(filtered)) :
                   /\ shuffleCall' = ShuffleArray(filtered, js)
                   /\ apiResponse' = Ok(shuffleCall'.shuffled)
    /\ UNCHANGED <<triviaData, apiRequest>>
    /\ UNCHANGED <<queryVars, fetch, response, mounted, triviaItems, currentIndex, showAnswer,
                   loading, error, isPaused, hasEnded, countdown, timerIntervalRef,
                   liveIntervals, captured, narration, lastEvent, prev, ticks, userActed,
                   ends, replays, frozen>>

\* The requests the handlers are run on.
ApiRequests ==
    { [handler |-> "trivia", country |-> c, period |-> q] :
          c \in CountryParams, q \in PeriodParams }
    \cup
    { [handler |-> "countries", country |-> c, period |-> q] :
          c \in CountriesParams, q \in PeriodParams }

\* A collection and a request; no playback screen is involved.
ApiInit ==
    /\ triviaData \in DataSets
    /\ apiRequest \in ApiRequests
    /\ apiResponse = NoApiResponse
    /\ shuffleCall = NoShuffle
    /\ country = "" /\ period = "" /\ count = <<>>
    /\ fetch = "idle"
    /\ response = NoResponse
    /\ mounted = "unmounted"
    /\ triviaItems = InitialState.triviaItems
    /\ currentIndex = InitialState.currentIndex
    /\ showAnswer = InitialState.showAnswer
    /\ loading = InitialState.loading
    /\ error = InitialState.error
    /\ isPaused = InitialState.isPaused
    /\ hasEnded = InitialState.hasEnded
    /\ countdown = InitialState.countdown
    /\ timerIntervalRef = "unset"
    /\ liveIntervals = 0
    /\ captured = NoCapture
    /\ narration = "none"
    /\ lastEvent = "mount"
    /\ prev = InitialState
    /\ ticks = 0
    /\ userActed = FALSE
    /\ ends = 0
    /\ replays = 0
    /\ frozen = NoFreeze

ApiNext ==
    \/ TriviaHandler
    \/ CountriesHandler

ApiSpec == ApiInit /\ [][ApiNext]_vars

\* Types of the state.
TypeOK ==
    /\ mounted \in {"mounted", "unmounted", "crashed"}
    /\ fetch \in {"idle", "inflight", "done"}
    /\ currentIndex \in 0..MaxItems
    /\ countdown \in Int
    /\ showAnswer \in BOOLEAN /\ loading \in BOOLEAN /\ isPaused \in BOOLEAN
    /\ hasEnded \in BOOLEAN
    /\ timerIntervalRef \in {"unset", "running", "cleared"}
    /\ liveIntervals \in Nat
    /\ Len(triviaItems) <= MaxItems

\* ----------------------------------------------------------------- claims

\* Number of loaded items.
N == Len(triviaItems)

\* C1: pressing Pause and then Resume, with no Next in between, leaves countdown at
\* the value it had when Pause was pressed.
C1_ResumeKeepsCountdown ==
    (lastEvent = "resume" /\ frozen.valid /\ frozen.clean) => countdown = frozen.countdown

\* C2: with no button pressed, item i's answer is shown with countdown 6 on tick
\* 14*i + 8, the next question with countdown 8 on tick 14*(i+1), and hasEnded is set
\* on tick 14*N, which is tick 28 for two items.
C2_TickSchedule ==
    (~userActed /\ fetch = "done" /\ error = "" /\ N >= 1) =>
        LET per == QuestionSeconds + AnswerSeconds
        IN  /\ ~hasEnded =>
                /\ countdown \in 1..(IF showAnswer THEN AnswerSeconds ELSE QuestionSeconds)
                /\ ticks = per * currentIndex
                           + (IF showAnswer
                              THEN QuestionSeconds + (AnswerSeconds - countdown)
                              ELSE QuestionSeconds - countdown)
            /\ hasEnded => ticks = per * N /\ currentIndex = N - 1
            /\ (hasEnded /\ N = 2) => ticks = 28
            /\ (lastEvent = "tick" /\ showAnswer /\ ~prev.showAnswer) =>
                   countdown = AnswerSeconds /\ ticks = per * currentIndex + QuestionSeconds

\* C2 witness: two items played through without a button, ended on the 28th tick.
C2_Witness == ~userActed /\ hasEnded /\ N = 2 /\ ticks = 28 /\ lastEvent = "tick"

\* C3: whenever the screen is not loading, has no error and has not ended,
\* 0 <= currentIndex < items.length.
C3_IndexInRange ==
    (~loading /\ error = "" /\ ~hasEnded) => (0 <= currentIndex /\ currentIndex < N)

\* C4 as stated: hasEnded becomes true exactly once in a screen instance.
C4_EndsOnce == ends <= 1

\* C4 amended: hasEnded becomes true at most once per pass (once before the first
\* Replay and once after each Replay), only by the tick that expires the answer of
\* item N-1 or by Next on item N-1, and only Replay clears it.
C4_EndsOncePerPass ==
    /\ ends = replays + (IF hasEnded THEN 1 ELSE 0)
    /\ (hasEnded /\ ~prev.hasEnded) =>
           /\ lastEvent \in {"tick", "next"}
           /\ prev.currentIndex = N - 1
           /\ currentIndex = N - 1
           /\ lastEvent = "tick" => prev.showAnswer /\ prev.countdown = 1
    /\ (prev.hasEnded /\ ~hasEnded) => lastEvent = "replay"

\* C4 witness: the second pass, after a Replay, has ended by countdown expiry.
C4_Witness == hasEnded /\ ~prev.hasEnded /\ ends = 2 /\ replays = 1 /\ lastEvent = "tick"

\* C5 as stated: in every paused state countdown, currentIndex and showAnswer have
\* the values they had when Pause was pressed.
C5_PausedKeepsPosition ==
    isPaused =>
        /\ frozen.valid
        /\ countdown = frozen.countdown
        /\ currentIndex = frozen.currentIndex
        /\ showAnswer = frozen.showAnswer

\* C5 amended: while paused no tick is applied (no interval runs), and countdown,
\* currentIndex and showAnswer keep the values they had when Pause was pressed for as
\* long as Next is not pressed.
C5_PausedKeepsPositionUnlessNext ==
    isPaused =>
        /\ frozen.valid
        /\ timerIntervalRef # "running"
        /\ lastEvent # "tick"
        /\ frozen.clean =>
               /\ countdown = frozen.countdown
               /\ currentIndex = frozen.currentIndex
               /\ showAnswer = frozen.showAnswer

\* C5 witness: paused in the middle of an answer countdown, Repeat pressed meanwhile.
C5_Witness ==
    /\ isPaused /\ frozen.clean /\ lastEvent = "repeat"
    /\ showAnswer /\ countdown = 3 /\ currentIndex = 1 /\ ~hasEnded

\* C6: a tick is a function of (showAnswer, currentIndex, N): at countdown 1 it shows
\* the answer with countdown 6, or advances by one item with countdown 8, or ends on
\* the last item; any other tick only decrements countdown.
C6_TickTransition ==
    lastEvent = "tick" =>
        /\ prev.countdown >= 1
        /\ triviaItems = prev.triviaItems /\ isPaused = prev.isPaused
        /\ loading = prev.loading /\ error = prev.error
        /\ IF prev.countdown = 1
           THEN IF ~prev.showAnswer
                THEN /\ showAnswer /\ countdown = AnswerSeconds
                     /\ currentIndex = prev.currentIndex /\ ~hasEnded
                ELSE IF prev.currentIndex < N - 1
                THEN /\ currentIndex = prev.currentIndex + 1 /\ ~showAnswer
                     /\ countdown = QuestionSeconds /\ ~hasEnded
                ELSE /\ hasEnded /\ currentIndex = prev.currentIndex
           ELSE /\ countdown = prev.countdown - 1
                /\ currentIndex = prev.currentIndex /\ showAnswer = prev.showAnswer
                /\ ~hasEnded

\* C6 witness: the tick that expires the answer of item 0 has advanced to item 1.
C6_Witness ==
    /\ lastEvent = "tick" /\ prev.showAnswer /\ prev.countdown = 1
    /\ prev.currentIndex = 0 /\ currentIndex = 1 /\ ~showAnswer

\* The state the countdown expiry of item s.currentIndex's answer produces.
NaturalExpiry(s) ==
    LET a == [s EXCEPT !.showAnswer = TRUE, !.countdown = 1, !.isPaused = FALSE]
        c == [currentIndex |-> s.currentIndex, showAnswer |-> TRUE,
              triviaItems |-> s.triviaItems]
    IN  AfterSpeakEffect(a, TickResult(a, c))

\* C7 as stated: Next produces the state the expiry of the item's answer countdown
\* produces: (currentIndex, showAnswer, countdown) on an item before the last, and all
\* of (currentIndex, showAnswer, hasEnded, isPaused, countdown) on the last item.
C7_NextEqualsExpiry ==
    lastEvent = "next" =>
        LET e == NaturalExpiry(prev)
        IN  /\ currentIndex = e.currentIndex
            /\ showAnswer = e.showAnswer
            /\ countdown = e.countdown
            /\ hasEnded = e.hasEnded
            /\ prev.currentIndex = Len(prev.triviaItems) - 1 => isPaused = e.isPaused

\* C7 amended: on an item before the last, Next produces the currentIndex, showAnswer
\* and countdown of the expiry (i+1, false, 8); on the last item it sets hasEnded like
\* the expiry and keeps currentIndex, but leaves showAnswer, isPaused and countdown as
\* they were.
C7_NextAdvancesLikeExpiry ==
    lastEvent = "next" =>
        LET e == NaturalExpiry(prev)
        IN  /\ hasEnded = e.hasEnded
            /\ currentIndex = e.currentIndex
            /\ isPaused = prev.isPaused
            /\ triviaItems = prev.triviaItems
            /\ IF prev.currentIndex < Len(prev.triviaItems) - 1
               THEN /\ showAnswer = e.showAnswer /\ countdown = e.countdown
                    /\ currentIndex = prev.currentIndex + 1 /\ ~showAnswer
                    /\ countdown = QuestionSeconds /\ ~hasEnded
               ELSE /\ showAnswer = prev.showAnswer /\ countdown = prev.countdown
                    /\ hasEnded

\* C7 witness: Next pressed on the last item while its question was counting down.
C7_Witness ==
    /\ lastEvent = "next" /\ hasEnded /\ ~showAnswer /\ countdown = 5
    /\ currentIndex = N - 1 /\ N = 2

\* C8: Replay is pressed only in the ended view, and leaves currentIndex 0, showAnswer
\* false, hasEnded false, isPaused false, countdown 8, the items unchanged and the
\* interval running.
C8_ReplayResets ==
    lastEvent = "replay" =>
        /\ prev.hasEnded /\ ~prev.loading /\ prev.error = ""
        /\ currentIndex = 0 /\ ~showAnswer /\ ~hasEnded /\ ~isPaused
        /\ countdown = QuestionSeconds
        /\ triviaItems = prev.triviaItems
        /\ timerIntervalRef = "running"
        /\ captured = [currentIndex |-> 0, showAnswer |-> FALSE, triviaItems |-> triviaItems]

\* C8 witness: Replay from an ended state that was reached by Next while paused.
C8_Witness ==
    /\ lastEvent = "replay" /\ prev.isPaused /\ prev.countdown = 4 /\ prev.currentIndex = 2

\* C9: countdown is between 0 and 8 in every state.
C9_CountdownRange == countdown \in 0..QuestionSeconds

\* C9 witness: countdown 0, left by the tick that ended the round.
C9_Witness == countdown = 0 /\ hasEnded /\ lastEvent = "tick"

\* C10: a failed fetch or a response with zero items, received by the screen (it
\* cleared loading), leaves the error view with an
\* empty items list, and the error view is terminal: no interval runs, no second
\* fetch is issued, the playback record never changes again and the only event left
\* is Back to Menu.
C10_ErrorIsTerminal ==
    /\ (fetch = "done" /\ ~loading /\ (~response.ok \/ Len(response.items) = 0)) => error # ""
    /\ error # "" =>
           /\ triviaItems = <<>> /\ ~loading /\ ~hasEnded /\ ~isPaused
           /\ currentIndex = 0 /\ ~showAnswer
           /\ fetch = "done"
           /\ timerIntervalRef # "running"
           /\ lastEvent \in {"fetchDone", "backToMenu"}
    /\ prev.error # "" => (lastEvent = "backToMenu" /\ Cur = prev)

\* C10 witness: the error view after a response with zero items, left by Back to Menu.
C10_Witness ==
    /\ error # "" /\ response.ok /\ Len(response.items) = 0
    /\ lastEvent = "backToMenu" /\ mounted = "unmounted"

Min(a, b) == IF a < b THEN a ELSE b

\* The requested count as the claim reads it: 10 when absent or not an integer.
ClaimedCount(c) ==
    IF c = <<>> \/ ParseInt(c).isNaN THEN DefaultCount ELSE ParseInt(c).value

\* C11: the list handed to playback is the first min(c, k) of the k retrieved items,
\* where c is the requested count, 10 when count is absent or unparseable.
C11_FirstMinItems ==
    (lastEvent = "fetchDone" /\ response.ok /\ Len(response.items) > 0) =>
        LET m == Min(ClaimedCount(count), Len(response.items))
        IN  triviaItems = IF m <= 0 THEN <<>> ELSE SubSeq(response.items, 1, m)

\* C12: at most one interval is live at any time, and one is live exactly when the
\* screen is mounted, not loading, without error, with items, not paused and not ended;
\* the live interval is the one created after the last change (its closure holds the
\* current index, answer flag and items), and no tick fires once the screen is gone.
C12_SingleInterval ==
    /\ liveIntervals \in {0, 1}
    /\ (liveIntervals = 1) <=>
           (/\ mounted = "mounted" /\ ~loading /\ error = "" /\ N > 0
            /\ ~isPaused /\ ~hasEnded)
    /\ (liveIntervals = 1) <=> (timerIntervalRef = "running")
    /\ liveIntervals = 1 =>
           captured = [currentIndex |-> currentIndex, showAnswer |-> showAnswer,
                       triviaItems |-> triviaItems]
    /\ mounted # "mounted" => lastEvent # "tick"

\* C12 witness: the interval recreated by the tick that advanced to the third item.
C12_Witness ==
    /\ liveIntervals = 1 /\ lastEvent = "tick" /\ prev.showAnswer /\ ~showAnswer
    /\ currentIndex = 2

\* C13: Repeat leaves the playback record as it was and speaks the question, or the
\* question and the answer when the answer is shown.
C13_RepeatChangesNothing ==
    lastEvent = "repeat" =>
        /\ Cur = prev
        /\ narration = IF showAnswer THEN "repeatAnswer" ELSE "repeatQuestion"
        /\ (timerIntervalRef = "running") = ~isPaused

\* C13 witness: Repeat pressed in the middle of a running answer countdown.
C13_Witness ==
    /\ lastEvent = "repeat" /\ ~isPaused /\ showAnswer /\ countdown = 3
    /\ currentIndex = 1 /\ narration = "repeatAnswer"

\* ------------------------------------------------------ claims on the API

\* The handler has answered the request.
Answered == apiResponse.status # 0

\* Two strings are equal up to the case of their letters.
EqIgnoreCase(a, b) ==
    /\ Len(a) = Len(b)
    /\ \A i \in 1..Len(a) :
          \/ a[i] = b[i]
          \/ \E k \in DOMAIN UpperCaseLetters :
                {a[i], b[i]} = {UpperCaseLetters[k], LowerCaseLetters[k]}

\* The countries a request lists: the one country, or the comma-separated ones.
ListedCountries(req) ==
    IF req.handler = "countries" THEN Split(req.country.str, ",") ELSE <<req.country.str>>

\* The item's country is one of the listed countries, ignoring case.
CountryListed(item, req) ==
    \E k \in 1..Len(ListedCountries(req)) :
        EqIgnoreCase(item.country, ListedCountries(req)[k])

Ids(items) == { items[i].id : i \in 1..Len(items) }

\* The ids of the items of the collection that satisfy Keep.
IdsWhere(Keep(_)) == { triviaData[i].id : i \in { k \in 1..Len(triviaData) : Keep(triviaData[k]) } }

\* C14 as stated: a period of "Any Time" or "any", or an absent (or empty) period,
\* returns all items of the matched country; any other period string returns those
\* whose period equals it.
C14_PeriodFilter ==
    apiResponse.status = 200 =>
        LET q == apiRequest.period
            unfiltered == ~Truthy(q) \/ q.str \in {AnyTimeLabel, AnyLower}
            Keep(item) == CountryListed(item, apiRequest) /\ (unfiltered \/ item.period = q.str)
        IN  Ids(apiResponse.items) = IdsWhere(Keep)

\* C14 amended: an absent or empty period, the period "any", and "any time" in any
\* letter case return all items of the matched country; any other period string
\* returns those whose period equals it.
C14_PeriodFilterAnyCase ==
    apiResponse.status = 200 =>
        LET q == apiRequest.period
            unfiltered == \/ q.kind = "absent" \/ q.str = <<>> \/ q.str = AnyLower
                          \/ EqIgnoreCase(q.str, AnyTimeLower)
            Keep(item) == CountryListed(item, apiRequest) /\ (unfiltered \/ item.period = q.str)
        IN  /\ Ids(apiResponse.items) = IdsWhere(Keep)
            /\ Len(apiResponse.items) = Cardinality(IdsWhere(Keep))

\* C14 witness: period "ANY TIME" answered with items of both stored periods.
C14_Witness ==
    /\ apiResponse.status = 200
    /\ apiRequest.period = Str(<<"A", "N", "Y", " ", "T", "I", "M", "E">>)
    /\ \E i, j \in 1..Len(apiResponse.items) :
          apiResponse.items[i].period = P1960 /\ apiResponse.items[j].period = P1980

\* Number of positions of s that hold x.
Occurrences(s, x) == Cardinality({ i \in 1..Len(s) : s[i] = x })

\* b is a permutation of a: same length, same multiset of elements.
IsPermutation(b, a) ==
    /\ Len(b) = Len(a)
    /\ \A i \in 1..Len(a) : Occurrences(b, a[i]) = Occurrences(a, a[i])

\* C15: shuffleArray returns a permutation of its input and leaves the input array
\* as it was, whatever the random choices.
C15_ShuffleIsPermutation ==
    shuffleCall.called =>
        /\ IsPermutation(shuffleCall.shuffled, shuffleCall.input)
        /\ shuffleCall.array = shuffleCall.input

\* C15 witness: three items shuffled into another order.
C15_Witness ==
    /\ shuffleCall.called /\ Len(shuffleCall.input) = 3
    /\ shuffleCall.shuffled # shuffleCall.input
    /\ shuffleCall.choices = <<0, 1>>

RECURSIVE Factorial(_)
Factorial(n) == IF n <= 1 THEN 1 ELSE n * Factorial(n - 1)

\* C16: for an input of n distinct items, j is chosen in 0..i for i from n-1 down to 1,
\* there are n! sequences of choices, and they produce n! different results, each a
\* permutation of the input: every permutation exactly once.
C16_ShuffleIsUniform ==
    shuffleCall.called =>
        LET a    == shuffleCall.input
            n    == Len(a)
            seqs == ChoiceSeqs(n)
            outs == { ShuffleArray(a, js).shuffled : js \in seqs }
        IN  /\ shuffleCall.choices \in seqs
            /\ \A i \in 1..(n - 1) : shuffleCall.choices[i] \in 0..i
            /\ Cardinality(seqs) = Factorial(n)
            /\ Cardinality(outs) = Factorial(n)
            /\ \A o \in outs : IsPermutation(o, a)

\* C16 witness: three items, and the choices that reverse them.
C16_Witness ==
    /\ shuffleCall.called /\ Len(shuffleCall.input) = 3
    /\ \A i \in 1..3 : shuffleCall.shuffled[i] = shuffleCall.input[4 - i]

\* C17: every returned item has a listed country up to letter case, and with no
\* period filter the returned items are exactly the items of the collection whose
\* country is a listed country up to letter case.
C17_CountryFilter ==
    apiResponse.status = 200 =>
        /\ \A i \in 1..Len(apiResponse.items) : CountryListed(apiResponse.items[i], apiRequest)
        /\ \A i \in 1..Len(apiResponse.items) :
              \E k \in 1..Len(triviaData) : triviaData[k] = apiResponse.items[i]
        /\ ~PeriodFilterApplies(apiRequest.period) =>
              LET Keep(item) == CountryListed(item, apiRequest)
              IN  /\ Ids(apiResponse.items) = IdsWhere(Keep)
                  /\ Len(apiResponse.items) = Cardinality(IdsWhere(Keep))

\* C17 witness: country "Usa" answered with the three items tagged "USA".
C17_Witness ==
    /\ apiResponse.status = 200 /\ apiRequest.handler = "trivia"
    /\ apiRequest.country = Str(<<"U", "s", "a">>)
    /\ Len(apiResponse.items) = 3
    /\ \A i \in 1..3 : apiResponse.items[i].country = USA

C19_PlayingViewNonEmpty ==
    (~loading /\ error = "" /\ ~hasEnded) => Len(triviaItems) > 0

\* C20: a screen that is given a country eventually leaves Loading.
C20_LeavesLoading == (country # "") ~> ~loading

\* C21: in a behaviour where isPaused is eventually always false and the screen is not
\* left, every playing state is followed by a state with hasEnded true.
C21_PlaybackTerminates ==
    (<>[](~isPaused) /\ [](mounted # "unmounted")) => [](PlayingView(Cur) => <>hasEnded)

\* C21 for a non-empty list: in a behaviour where isPaused is eventually always false,
\* every playing state with at least one item is followed by a state where hasEnded is
\* true or the screen has been left.
C21_TerminatesNonEmpty ==
    (<>[](~isPaused)) =>
        []((PlayingView(Cur) /\ N > 0) => <>(hasEnded \/ mounted = "unmounted"))

\* C22: once the screen is torn down nothing of it runs any more: the last thing that
\* happened is the teardown itself.
C22_NothingAfterTeardown ==
    mounted = "unmounted" => lastEvent \in {"backToMenu", "unmount"}

====
